---- MODULE Spec2Model ----
(***************************************************************************)
(* A model of the calendar-buddy tool layer (src/smolagents/main.py): the  *)
(* nine tools the agent may call, the HTTP replies they handle, and the    *)
(* calendar backend they talk to.                                          *)
(*                                                                         *)
(* Python / JSON values are tagged records, so that values of different    *)
(* types are never confused:                                               *)
(*   NoneV, IntV(n), FloatV(f) (f in tenths), StrV(s), ListV(q), DictV(d)  *)
(* A call either returns a value, Return(v), or lets an exception escape,  *)
(* Raise(e).                                                               *)
(***************************************************************************)
EXTENDS Integers, Sequences, FiniteSets, TLC

VARIABLES calendar, call, sent, outcome

vars == <<calendar, call, sent, outcome>>

(* ------------------------------------------------------------ bounds --- *)

\* The most events the modelled calendar backend stores.
MaxEvents == 1

(* ------------------------------------------------------ Python values --- *)

NoneV == [t |-> "none"]
IntV(n) == [t |-> "int", n |-> n]
FloatV(f) == [t |-> "float", f |-> f]
StrV(s) == [t |-> "str", s |-> s]
ListV(q) == [t |-> "list", q |-> q]
DictV(d) == [t |-> "dict", d |-> d]

Return(v) == [k |-> "return", v |-> v]
Raise(e) == [k |-> "raise", e |-> e]

\* Python truthiness: `if x`, `not x`.
Truthy(v) ==
    CASE v.t = "none" -> FALSE
      [] v.t = "int" -> v.n # 0
      [] v.t = "float" -> v.f # 0
      [] v.t = "str" -> v.s # ""
      [] v.t = "list" -> v.q # <<>>
      [] v.t = "dict" -> DOMAIN v.d # {}

\* The order in which the keys of the modelled dicts were inserted (Python
\* dicts and JSON documents keep insertion order).
KeyOrder ==
    <<"id", "title", "startDatetime", "endDatetime", "location", "name",
      "latitude", "longitude", "lat", "lng", "formatted_address", "error",
      "geometry", "routes", "duration", "distanceMeters", "staticDuration">>

\* list(d) / iteration over a dict: its keys, in insertion order.
dict_keys(v) == SelectSeq(KeyOrder, LAMBDA key : key \in DOMAIN v.d)

\* d.get(key, default)
dict_get(v, key, default) == IF key \in DOMAIN v.d THEN v.d[key] ELSE default

(* ------------------------------------------------------ configuration --- *)

CALENDAR_API_BASE == "http://localhost:3000"

(* ------------------------------------------------- HTTP and the backend --- *)

\* What the backend does with one request.
\*   serve     answers as the REST contract says
\*   conflict  answers 409
\*   error     answers 500
\*   down      no answer: the transport raises (connection error, timeout)
\*   garbled   answers 200 with a body that is not JSON
\*   scalar    answers 200 with the JSON number 5
\*   null      answers 200 with JSON null
\*   object    answers 200 with a single JSON object
Behaviours ==
    {"serve", "conflict", "error", "down", "garbled", "scalar", "null", "object"}

\* The reason phrase of the status line.
reason(status) ==
    CASE status = 200 -> "OK"
      [] status = 204 -> "No Content"
      [] status = 400 -> "Bad Request"
      [] status = 403 -> "Forbidden"
      [] status = 404 -> "Not Found"
      [] status = 409 -> "Conflict"
      [] status = 500 -> "Internal Server Error"
      [] OTHER -> ""

\* A reply; requests fills in the url it was fetched from.
Response(status, body, text) ==
    [net |-> "ok", status |-> status, reason |-> reason(status), url |-> "",
     decodes |-> TRUE, body |-> body, text |-> text]
Garbled == [net |-> "ok", status |-> 200, reason |-> reason(200), url |-> "",
            decodes |-> FALSE, body |-> NoneV, text |-> "<html>"]
TransportFailure == [net |-> "fail", msg |-> "Connection refused"]

KnownLocations ==
    <<DictV([name |-> StrV("Office"), latitude |-> FloatV(515), longitude |-> FloatV(-1)]),
      DictV([name |-> StrV("Cafe"), latitude |-> FloatV(10), longitude |-> FloatV(20)])>>

EventIds == {StrV(ToString(i)) : i \in 1..(MaxEvents + 1)}

RECURSIVE find_event(_, _)
\* Index of the stored event with this id, 0 when there is none.
find_event(cal, id) ==
    IF cal = <<>> THEN 0
    ELSE IF cal[Len(cal)].d.id = id THEN Len(cal)
    ELSE find_event(SubSeq(cal, 1, Len(cal) - 1), id)

remove_at(q, i) == SubSeq(q, 1, i - 1) \o SubSeq(q, i + 1, Len(q))

\* The id the backend gives the next event: the least one not in use.
fresh_id(cal) ==
    LET unused(i) == find_event(cal, StrV(ToString(i))) = 0
    IN StrV(ToString(CHOOSE i \in 1..(MaxEvents + 1) :
                        unused(i) /\ \A j \in 1..(i - 1) : ~unused(j)))

\* The calendar backend of the REST contract: the reply to one request and the
\* calendar after it.
Backend(cal, behaviour, method, url, json) ==
    LET same(resp) == [resp |-> resp, cal |-> cal]
        base == CALENDAR_API_BASE
    IN
    CASE behaviour = "down" -> same(TransportFailure)
      [] behaviour = "conflict" ->
            same(Response(409, DictV([error |-> StrV("conflict")]), "Conflict"))
      [] behaviour = "error" -> same(Response(500, NoneV, ""))
      [] behaviour = "garbled" -> same(Garbled)
      [] behaviour = "scalar" -> same(Response(200, IntV(5), "5"))
      [] behaviour = "null" -> same(Response(200, NoneV, "null"))
      [] behaviour = "object" -> same(Response(200, KnownLocations[1], "{...}"))
      [] OTHER ->
            IF method = "GET" /\ url = base \o "/calendar/get"
            THEN same(Response(200, ListV(cal), "[...]"))
            ELSE IF method = "GET" /\ url = base \o "/location/get"
            THEN same(Response(200, ListV(KnownLocations), "[...]"))
            ELSE IF method = "GET"
                    /\ \E id \in EventIds : url = base \o "/calendar/get/" \o id.s
            THEN LET id == CHOOSE i \in EventIds :
                               url = base \o "/calendar/get/" \o i.s
                     at == find_event(cal, id)
                 IN IF at = 0 THEN same(Response(404, NoneV, ""))
                    ELSE same(Response(200, cal[at], "{...}"))
            ELSE IF method = "POST" /\ url = base \o "/calendar/create"
            THEN IF Len(cal) >= MaxEvents THEN same(Response(500, NoneV, ""))
                 ELSE LET ev == DictV(("id" :> fresh_id(cal)) @@ json.d)
                      IN [resp |-> Response(200, ev, "{...}"), cal |-> Append(cal, ev)]
            ELSE IF method = "POST"
                    /\ \E id \in EventIds : url = base \o "/calendar/update/" \o id.s
            THEN LET id == CHOOSE i \in EventIds :
                               url = base \o "/calendar/update/" \o i.s
                     at == find_event(cal, id)
                 IN IF at = 0 THEN same(Response(404, NoneV, ""))
                    ELSE LET ev == DictV(json.d @@ cal[at].d)
                         IN [resp |-> Response(200, ev, "{...}"),
                             cal |-> [cal EXCEPT ![at] = ev]]
            ELSE IF method = "DELETE"
                    /\ \E id \in EventIds : url = base \o "/calendar/" \o id.s
            THEN LET id == CHOOSE i \in EventIds : url = base \o "/calendar/" \o i.s
                     at == find_event(cal, id)
                 IN IF at = 0 THEN same(Response(404, NoneV, ""))
                    ELSE [resp |-> Response(204, NoneV, ""), cal |-> remove_at(cal, at)]
            ELSE same(Response(404, NoneV, ""))

\* requests.get / requests.post / requests.delete: one request on the wire,
\* logged with the reply it got.
fetched_from(resp, url) ==
    IF resp.net = "ok" THEN [resp EXCEPT !.url = url] ELSE resp
requests_get(cal, behaviour, url) ==
    LET r == Backend(cal, behaviour, "GET", url, NoneV)
        resp == fetched_from(r.resp, url)
    IN [resp |-> resp, cal |-> r.cal,
        sent |-> <<[method |-> "GET", url |-> url, json |-> NoneV, resp |-> resp]>>]
requests_post(cal, behaviour, url, json) ==
    LET r == Backend(cal, behaviour, "POST", url, json)
        resp == fetched_from(r.resp, url)
    IN [resp |-> resp, cal |-> r.cal,
        sent |-> <<[method |-> "POST", url |-> url, json |-> json, resp |-> resp]>>]
requests_delete(cal, behaviour, url) ==
    LET r == Backend(cal, behaviour, "DELETE", url, NoneV)
        resp == fetched_from(r.resp, url)
    IN [resp |-> resp, cal |-> r.cal,
        sent |-> <<[method |-> "DELETE", url |-> url, json |-> NoneV, resp |-> resp]>>]

\* What `except requests.exceptions.RequestException as e` catches, as the text
\* of e ("" when nothing is raised): the request itself failing,
send_error(resp) == IF resp.net = "fail" THEN resp.msg ELSE ""
\* response.raise_for_status() on a 4xx/5xx status,
raise_for_status(resp) ==
    LET text(kind) == ToString(resp.status) \o " " \o kind \o " Error: "
                      \o resp.reason \o " for url: " \o resp.url
    IN IF 400 <= resp.status /\ resp.status < 500 THEN text("Client")
       ELSE IF 500 <= resp.status /\ resp.status < 600 THEN text("Server")
       ELSE ""
\* and response.json() on a body that is not JSON (requests' JSONDecodeError is
\* a RequestException).
json_error(resp) ==
    IF ~resp.decodes THEN "Expecting value: line 1 column 1 (char 0)" ELSE ""

\* send, raise_for_status(), json(): the first of the three that raises.
RequestException(resp) ==
    IF send_error(resp) # "" THEN send_error(resp)
    ELSE IF raise_for_status(resp) # "" THEN raise_for_status(resp)
    ELSE json_error(resp)

(* ------------------------------------------------------ calendar tools --- *)

\* The result of a tool call: what it returned or raised, the requests it put
\* on the wire, and the backend's calendar afterwards.
Result(out, sent_, cal) == [out |-> out, sent |-> sent_, cal |-> cal]

\* The same for a tool that has nothing to do with the calendar.
Answer(out, sent_) == [out |-> out, sent |-> sent_]

get_all_events(cal, behaviour) ==
    LET r == requests_get(cal, behaviour, CALENDAR_API_BASE \o "/calendar/get")
        e == RequestException(r.resp)
    IN IF e # ""
       THEN Result(Return(StrV("Error fetching events: " \o e)), r.sent, r.cal)
       ELSE Result(Return(r.resp.body), r.sent, r.cal)

get_event_by_id(cal, behaviour, event_id) ==
    LET r == requests_get(cal, behaviour,
                          CALENDAR_API_BASE \o "/calendar/get/" \o event_id.s)
        e == RequestException(r.resp)
    IN IF e # ""
       THEN Result(Return(StrV("Error fetching event " \o event_id.s \o ": " \o e)),
                   r.sent, r.cal)
       ELSE Result(Return(r.resp.body), r.sent, r.cal)

get_all_locations(cal, behaviour) ==
    LET r == requests_get(cal, behaviour, CALENDAR_API_BASE \o "/location/get")
        e == RequestException(r.resp)
        data == r.resp.body
    IN IF e # "" THEN Result(Return(ListV(<<>>)), r.sent, r.cal)
       ELSE IF data.t = "list" THEN Result(Return(data), r.sent, r.cal)
       ELSE IF ~Truthy(data) THEN Result(Return(ListV(<<>>)), r.sent, r.cal)
       ELSE IF data.t = "dict"
       THEN Result(Return(ListV([i \in 1..Len(dict_keys(data)) |->
                                     StrV(dict_keys(data)[i])])), r.sent, r.cal)
       ELSE Result(Raise("TypeError"), r.sent, r.cal)

create_event_payload(title, startDatetime, endDatetime, location_name, latitude, longitude) ==
    DictV([title |-> title,
           startDatetime |-> startDatetime,
           endDatetime |-> endDatetime,
           location |-> DictV([name |-> location_name,
                               latitude |-> latitude,
                               longitude |-> longitude])])

SlotBooked == "Error: This time slot is already booked. Please choose a different time."

create_event(cal, behaviour, title, startDatetime, endDatetime, location_name, latitude, longitude) ==
    LET payload == create_event_payload(title, startDatetime, endDatetime,
                                        location_name, latitude, longitude)
        r == requests_post(cal, behaviour,
                           CALENDAR_API_BASE \o "/calendar/create", payload)
    IN IF send_error(r.resp) # ""
       THEN Result(Return(StrV("Error creating event: " \o send_error(r.resp))),
                   r.sent, r.cal)
       ELSE IF r.resp.status = 409
       THEN Result(Return(StrV(SlotBooked)), r.sent, r.cal)
       ELSE IF RequestException(r.resp) # ""
       THEN Result(Return(StrV("Error creating event: " \o RequestException(r.resp))),
                   r.sent, r.cal)
       ELSE Result(Return(r.resp.body), r.sent, r.cal)

delete_event(cal, behaviour, event_id) ==
    LET r == requests_delete(cal, behaviour,
                             CALENDAR_API_BASE \o "/calendar/" \o event_id.s)
        e == IF send_error(r.resp) # "" THEN send_error(r.resp)
             ELSE raise_for_status(r.resp)
    IN IF e # ""
       THEN Result(Return(StrV("Error deleting event " \o event_id.s \o ": " \o e)),
                   r.sent, r.cal)
       ELSE IF r.resp.status = 204
       THEN Result(Return(StrV("Successfully deleted event " \o event_id.s \o ".")),
                   r.sent, r.cal)
       ELSE Result(Return(StrV(r.resp.text)), r.sent, r.cal)

\* update_event_payload as it would be without the `is not None` tests: every
\* field goes into the body, supplied or not.
update_event_payload_unfiltered(title, startDatetime, endDatetime) ==
    DictV([title |-> title, startDatetime |-> startDatetime,
           endDatetime |-> endDatetime])

\* update_event_payload as it would be if the title were put in the body
\* whether or not the caller gave one.
update_event_payload_always_titled(title, startDatetime, endDatetime) ==
    LET arg == [title |-> title, startDatetime |-> startDatetime,
                endDatetime |-> endDatetime]
    IN DictV([key \in {x \in DOMAIN arg : x = "title" \/ arg[x] # NoneV} |-> arg[key]])

update_event_payload(title, startDatetime, endDatetime) ==
    LET arg == [title |-> title, startDatetime |-> startDatetime,
                endDatetime |-> endDatetime]
    IN DictV([key \in {x \in DOMAIN arg : arg[x] # NoneV} |-> arg[key]])

NothingToUpdate ==
    "Error: You must provide at least one field to update (title, startDatetime, or endDatetime)."

\* update_event as it would be without the test for status 409: a conflict is
\* reported like any other HTTP error.
update_event_conflict_unchecked(cal, behaviour, event_id, title, startDatetime, endDatetime) ==
    LET payload == update_event_payload(title, startDatetime, endDatetime)
        r == requests_post(cal, behaviour,
                           CALENDAR_API_BASE \o "/calendar/update/" \o event_id.s,
                           payload)
    IN IF ~Truthy(payload)
       THEN Result(Return(StrV(NothingToUpdate)), <<>>, cal)
       ELSE IF RequestException(r.resp) # ""
       THEN Result(Return(StrV("Error updating event " \o event_id.s \o ": "
                               \o RequestException(r.resp))), r.sent, r.cal)
       ELSE Result(Return(r.resp.body), r.sent, r.cal)

update_event(cal, behaviour, event_id, title, startDatetime, endDatetime) ==
    LET payload == update_event_payload(title, startDatetime, endDatetime)
        r == requests_post(cal, behaviour,
                           CALENDAR_API_BASE \o "/calendar/update/" \o event_id.s,
                           payload)
    IN IF ~Truthy(payload)
       THEN Result(Return(StrV(NothingToUpdate)), <<>>, cal)
       ELSE IF send_error(r.resp) # ""
       THEN Result(Return(StrV("Error updating event " \o event_id.s \o ": "
                               \o send_error(r.resp))), r.sent, r.cal)
       ELSE IF r.resp.status = 409
       THEN Result(Return(StrV(SlotBooked)), r.sent, r.cal)
       ELSE IF RequestException(r.resp) # ""
       THEN Result(Return(StrV("Error updating event " \o event_id.s \o ": "
                               \o RequestException(r.resp))), r.sent, r.cal)
       ELSE Result(Return(r.resp.body), r.sent, r.cal)

(* --------------------------------------------------- text and time --- *)

pad2(n) == IF n < 10 THEN "0" \o ToString(n) ELSE ToString(n)

\* The proleptic Gregorian <<year, month, day>> of a day count from 1970-01-01.
civil_from_days(z) ==
    LET zz == z + 719468
        era == zz \div 146097
        doe == zz - era * 146097
        yoe == (doe - doe \div 1460 + doe \div 36524 - doe \div 146096) \div 365
        doy == doe - (365 * yoe + yoe \div 4 - yoe \div 100)
        mp == (5 * doy + 2) \div 153
        d == doy - (153 * mp + 2) \div 5 + 1
        m == IF mp < 10 THEN mp + 3 ELSE mp - 9
        y == yoe + era * 400 + (IF m <= 2 THEN 1 ELSE 0)
    IN <<y, m, d>>

\* datetime.fromtimestamp(ts).strftime("%Y-%m-%d %H:%M"), the local zone being UTC.
strftime_minutes(ts) ==
    LET date == civil_from_days(ts \div 86400)
        secs == ts % 86400
    IN ToString(date[1]) \o "-" \o pad2(date[2]) \o "-" \o pad2(date[3]) \o " "
       \o pad2(secs \div 3600) \o ":" \o pad2((secs % 3600) \div 60)

\* datetime.now(utc).replace(microsecond=0).isoformat().replace("+00:00", "Z")
isoformat_z(ts) ==
    LET date == civil_from_days(ts \div 86400)
        secs == ts % 86400
    IN ToString(date[1]) \o "-" \o pad2(date[2]) \o "-" \o pad2(date[3]) \o "T"
       \o pad2(secs \div 3600) \o ":" \o pad2((secs % 3600) \div 60) \o ":"
       \o pad2(secs % 60) \o "Z"

\* repr() of a float held in tenths: 515 is 51.5, -1 is -0.1, 10 is 1.0.
float_repr(f) ==
    LET a == IF f < 0 THEN -f ELSE f
    IN (IF f < 0 THEN "-" ELSE "") \o ToString(a \div 10) \o "." \o ToString(a % 10)

\* f"{metres / 1000:.1f}" for a whole number of metres that is not at a tie
\* (metres % 100 # 50): the nearest tenth of a kilometre.
km_1f(metres) == float_repr((metres + 50) \div 100)

RECURSIVE join(_, _)
join(parts, sep) ==
    IF parts = <<>> THEN ""
    ELSE IF Len(parts) = 1 THEN parts[1]
    ELSE parts[1] \o sep \o join(Tail(parts), sep)

RECURSIVE py_repr(_)
\* repr(v), which is what an f-string prints for a list or a dict.
py_repr(v) ==
    CASE v.t = "none" -> "None"
      [] v.t = "int" -> ToString(v.n)
      [] v.t = "float" -> float_repr(v.f)
      [] v.t = "str" -> "'" \o v.s \o "'"
      [] v.t = "list" ->
            "[" \o join([i \in 1..Len(v.q) |-> py_repr(v.q[i])], ", ") \o "]"
      [] v.t = "dict" ->
            LET keys == dict_keys(v)
            IN "{" \o join([i \in 1..Len(keys) |->
                               "'" \o keys[i] \o "': " \o py_repr(v.d[keys[i]])], ", ")
               \o "}"

\* str(v), which is what an f-string prints.
py_str(v) == IF v.t = "str" THEN v.s ELSE py_repr(v)

(* ------------------------------------------------ geocoding and routing --- *)

\* What gmaps.geocode(address) does: the results it returns, or what it raises.
\*   found        one result with geometry and formatted_address
\*   bare         one result with geometry only
\*   zero         no result
\*   malformed    one result without geometry
\*   ApiError     googlemaps.exceptions.ApiError (key, billing, quota)
\*   Exception    any other exception (transport, timeout)
\*   ImportError  the googlemaps package cannot be imported
GeocoderBehaviours ==
    {"found", "bare", "zero", "malformed", "ApiError", "Exception", "ImportError"}

geocode(behaviour, address) ==
    LET geometry ==
            DictV([location |-> DictV([lat |-> FloatV(515), lng |-> FloatV(-1)])])
    IN
    CASE behaviour = "found" ->
            [k |-> "results",
             v |-> ListV(<<DictV([geometry |-> geometry,
                                  formatted_address |-> StrV(address.s \o ", London")])>>)]
      [] behaviour = "bare" ->
            [k |-> "results", v |-> ListV(<<DictV([geometry |-> geometry])>>)]
      [] behaviour = "zero" -> [k |-> "results", v |-> ListV(<<>>)]
      [] behaviour = "malformed" ->
            [k |-> "results", v |-> ListV(<<DictV([formatted_address |-> address])>>)]
      [] behaviour = "ApiError" -> [k |-> "ApiError", msg |-> "REQUEST_DENIED"]
      [] behaviour = "Exception" -> [k |-> "Exception", msg |-> "Read timed out"]
      [] OTHER -> [k |-> "ImportError", msg |-> "No module named 'googlemaps'"]

geocode_failure(address, text) ==
    DictV([lat |-> NoneV, lng |-> NoneV, formatted_address |-> address,
           error |-> StrV(text)])

get_lat_long_for_address(behaviour, address) ==
    LET g == geocode(behaviour, address)
        log == <<[method |-> "geocode", url |-> "googlemaps", json |-> address,
                  resp |-> g]>>
        res(out) == Answer(out, log)
    IN
    CASE g.k = "ImportError" ->
            \* the import fails inside the try, and `except ApiError` then reads a
            \* local name that was never bound
            Answer(Raise("UnboundLocalError"), <<>>)
      [] g.k = "ApiError" -> res(Return(geocode_failure(address, g.msg)))
      [] g.k = "Exception" -> res(Return(geocode_failure(address, g.msg)))
      [] OTHER ->
            IF Truthy(g.v)
            THEN LET first == g.v.q[1]
                 IN IF "geometry" \notin DOMAIN first.d
                    THEN res(Return(geocode_failure(address, "'geometry'")))
                    ELSE LET location == first.d.geometry.d.location
                         IN res(Return(DictV(
                                [lat |-> location.d.lat,
                                 lng |-> location.d.lng,
                                 formatted_address |->
                                     dict_get(first, "formatted_address", address)])))
            ELSE res(Return(geocode_failure(address, "Address not found")))

format_location(loc) ==
    IF loc.t = "dict"
    THEN IF Truthy(dict_get(loc, "error", NoneV))
         THEN Return(DictV([error |-> loc.d.error]))
         ELSE IF "lat" \notin DOMAIN loc.d \/ "lng" \notin DOMAIN loc.d
         THEN Raise("KeyError")
         ELSE Return(DictV([location |->
                  DictV([latLng |-> DictV([latitude |-> loc.d.lat,
                                           longitude |-> loc.d.lng])])]))
    ELSE IF loc.t = "str"
    THEN Return(DictV([location |-> DictV([address |-> loc])]))
    ELSE Return(DictV([error |-> StrV("Invalid location format")]))

ROUTES_URL == "https://routes.googleapis.com/directions/v2:computeRoutes"

\* What the Routes API does with a request.
\*   serve        one route with duration and distance
\*   partial      one route with neither
\*   baddistance  one route whose distanceMeters is text
\*   noroutes     {"routes": []}
\*   empty        {}
\*   and the transport and body faults of Behaviours.
RoutesBehaviours ==
    {"serve", "partial", "baddistance", "noroutes", "empty",
     "error", "down", "garbled", "scalar", "null"}

RoutesBackend(behaviour, body) ==
    LET ok(data) == Response(200, data, "{...}")
    IN
    CASE behaviour = "serve" ->
            ok(DictV([routes |-> ListV(<<DictV([duration |-> StrV("900s"),
                                               distanceMeters |-> IntV(12340)])>>)]))
      [] behaviour = "partial" -> ok(DictV([routes |-> ListV(<<DictV(<<>>)>>)]))
      [] behaviour = "baddistance" ->
            ok(DictV([routes |-> ListV(<<DictV([duration |-> StrV("900s"),
                                               distanceMeters |-> StrV("12 km")])>>)]))
      [] behaviour = "noroutes" -> ok(DictV([routes |-> ListV(<<>>)]))
      [] behaviour = "empty" -> ok(DictV(<<>>))
      [] behaviour = "error" -> Response(403, NoneV, "")
      [] behaviour = "down" -> TransportFailure
      [] behaviour = "garbled" -> Garbled
      [] behaviour = "scalar" -> Response(200, IntV(5), "5")
      [] OTHER -> Response(200, NoneV, "null")

get_eta_body(origin_loc, destination_loc, now) ==
    DictV([origin |-> origin_loc,
           destination |-> destination_loc,
           travelMode |-> StrV("DRIVE"),
           routingPreference |-> StrV("TRAFFIC_AWARE_OPTIMAL"),
           departureTime |-> StrV(isoformat_z(now)),
           languageCode |-> StrV("en-US"),
           units |-> StrV("METRIC"),
           regionCode |-> StrV("GB")])

\* The part of get_eta that reads the reply.
get_eta_reply(resp) ==
    LET e == RequestException(resp)
        data == resp.body
    IN IF e # "" THEN Return(StrV("Error calling Google Routes API: " \o e))
       ELSE IF data.t \notin {"dict", "list", "str"} THEN Raise("TypeError")
       ELSE IF data.t # "dict" \/ "routes" \notin DOMAIN data.d
                \/ ~Truthy(data.d.routes)
       THEN Return(StrV("Google Routes API Error: No routes found. " \o py_str(data)))
       ELSE IF data.d.routes.t # "list" THEN Raise("KeyError")
       ELSE LET route == data.d.routes.q[1]
            IN IF route.t # "dict" THEN Raise("AttributeError")
               ELSE LET duration == dict_get(route, "duration", StrV("Unknown duration"))
                        distance == dict_get(route, "distanceMeters", IntV(0))
                    IN IF distance.t # "int" THEN Raise("TypeError")
                       ELSE Return(StrV("The current ETA is " \o py_str(duration)
                                        \o " (" \o km_1f(distance.n) \o " km)."))

get_eta(behaviour, origin, destination, now) ==
    LET origin_loc == format_location(origin)
        destination_loc == format_location(destination)
    IN IF origin_loc.k = "raise" THEN Answer(origin_loc, <<>>)
       ELSE IF destination_loc.k = "raise" THEN Answer(destination_loc, <<>>)
       ELSE IF "error" \in DOMAIN origin_loc.v.d
       THEN Answer(Return(StrV("Error: " \o py_str(origin_loc.v.d.error))), <<>>)
       ELSE IF "error" \in DOMAIN destination_loc.v.d
       THEN Answer(Return(StrV("Error: " \o py_str(destination_loc.v.d.error))), <<>>)
       ELSE LET body == get_eta_body(origin_loc.v, destination_loc.v, now)
                resp == fetched_from(RoutesBackend(behaviour, body), ROUTES_URL)
            IN Answer(get_eta_reply(resp),
                      <<[method |-> "POST", url |-> ROUTES_URL, json |-> body,
                         resp |-> resp]>>)

(* ----------------------------------------------------------- humanizer --- *)

RECURSIVE spaces(_)
spaces(n) == IF n = 0 THEN "" ELSE " " \o spaces(n - 1)

RECURSIVE json_dumps(_)
\* json.dumps(v)
json_dumps(v) ==
    CASE v.t = "none" -> "null"
      [] v.t = "int" -> ToString(v.n)
      [] v.t = "float" -> float_repr(v.f)
      [] v.t = "str" -> "\"" \o v.s \o "\""
      [] v.t = "list" ->
            "[" \o join([i \in 1..Len(v.q) |-> json_dumps(v.q[i])], ", ") \o "]"
      [] v.t = "dict" ->
            LET keys == dict_keys(v)
            IN "{" \o join([i \in 1..Len(keys) |->
                               "\"" \o keys[i] \o "\": " \o json_dumps(v.d[keys[i]])],
                           ", ") \o "}"

RECURSIVE json_dumps_indent(_, _, _)
\* json.dumps(v, indent=indent), for the value at nesting depth `level`
json_dumps_indent(v, indent, level) ==
    LET inner == "\n" \o spaces(indent * (level + 1))
        close == "\n" \o spaces(indent * level)
    IN
    CASE v.t = "list" /\ v.q # <<>> ->
            "[" \o inner
            \o join([i \in 1..Len(v.q) |->
                        json_dumps_indent(v.q[i], indent, level + 1)], "," \o inner)
            \o close \o "]"
      [] v.t = "dict" /\ DOMAIN v.d # {} ->
            LET keys == dict_keys(v)
            IN "{" \o inner
               \o join([i \in 1..Len(keys) |->
                           "\"" \o keys[i] \o "\": "
                           \o json_dumps_indent(v.d[keys[i]], indent, level + 1)],
                       "," \o inner)
               \o close \o "}"
      [] OTHER -> json_dumps(v)

\* s.startswith(prefix), decided over the endings the modelled texts have
Endings == {"", "s", "ings", "ations", "eric"}
startswith(s, prefix) == \E rest \in Endings : s = prefix \o rest

\* The four characters that open a location's line in the source as it is
\* (U+F8FF U+00FC U+00EC U+00E7, what is left of a pushpin).
PIN == "üìç"

\* One line of the locations view, or the exception the comprehension raises.
location_line(loc) ==
    IF loc.t # "dict" THEN Raise("TypeError")
    ELSE IF {"name", "latitude", "longitude"} \ DOMAIN loc.d # {} THEN Raise("KeyError")
    ELSE Return(PIN \o " " \o py_str(loc.d.name) \o " (Lat: " \o py_str(loc.d.latitude)
                \o ", Lon: " \o py_str(loc.d.longitude) \o ")")

\* fromtimestamp() takes whole seconds or a float
is_timestamp(v) == v.t \in {"int", "float"}
seconds(v) == IF v.t = "int" THEN v.n ELSE v.f \div 10

\* event_line_parts as it would be if the events view showed coordinates the
\* way the locations view does.
event_line_parts_with_coordinates(e) ==
    LET location == dict_get(e, "location", DictV(<<>>))
    IN <<py_str(e.d.title), " at ",
         py_str(dict_get(location, "name", StrV("Unknown Location"))),
         " (Lat: ", py_str(dict_get(location, "latitude", NoneV)),
         ", Lon: ", py_str(dict_get(location, "longitude", NoneV)), ")",
         " from ", strftime_minutes(seconds(e.d.startDatetime)),
         " to ", strftime_minutes(seconds(e.d.endDatetime))>>

\* The pieces an event's line is put together from.
event_line_parts(e) ==
    <<py_str(e.d.title), " at ",
      py_str(dict_get(dict_get(e, "location", DictV(<<>>)), "name",
                      StrV("Unknown Location"))),
      " from ", strftime_minutes(seconds(e.d.startDatetime)),
      " to ", strftime_minutes(seconds(e.d.endDatetime))>>

\* One line of the events view, or the exception the loop body raises.
event_line(e) ==
    IF e.t # "dict" THEN Raise("TypeError")
    ELSE IF "title" \notin DOMAIN e.d THEN Raise("KeyError")
    ELSE IF "startDatetime" \notin DOMAIN e.d THEN Raise("KeyError")
    ELSE IF ~is_timestamp(e.d.startDatetime) THEN Raise("TypeError")
    ELSE IF "endDatetime" \notin DOMAIN e.d THEN Raise("KeyError")
    ELSE IF ~is_timestamp(e.d.endDatetime) THEN Raise("TypeError")
    ELSE IF dict_get(e, "location", DictV(<<>>)).t # "dict" THEN Raise("AttributeError")
    ELSE Return(join(event_line_parts(e), ""))

\* The values the documents the planner may pass as text parse to.
JsonDocs ==
    LET ev == DictV([id |-> StrV("1"), title |-> StrV("Call"),
                     startDatetime |-> IntV(1700000000),
                     endDatetime |-> IntV(1700003600),
                     location |-> KnownLocations[1]])
    IN {ListV(<<>>), ListV(<<ev>>), ListV(KnownLocations), ev, DictV(<<>>),
        NoneV, IntV(5), IntV(0)}

\* The titles and times the planner gives events.
Titles == {StrV("Call"), StrV("Standup")}
Epochs == {IntV(1700000000), IntV(1700003600)}

\* Event lists of a shape the events view does not expect: an event without
\* its endDatetime, and an event whose location is null.
MalformedEvents ==
    {ListV(<<DictV([id |-> StrV("1"), title |-> StrV("Call"),
                    startDatetime |-> IntV(1700000000),
                    location |-> KnownLocations[1]])>>),
     ListV(<<DictV([id |-> StrV("1"), title |-> StrV("Call"),
                    startDatetime |-> IntV(1700000000),
                    endDatetime |-> IntV(1700003600),
                    location |-> NoneV])>>)}

\* The events the backend can hold, and the lists of them it can return.
StoredEvents ==
    {DictV([id |-> id, title |-> title, startDatetime |-> s, endDatetime |-> e,
            location |-> KnownLocations[1]]) :
        id \in EventIds, title \in Titles, s \in Epochs, e \in Epochs}
StoredLists ==
    {ListV(q) : q \in UNION {[1..n -> StoredEvents] : n \in 1..MaxEvents}}

\* Every document whose JSON text occurs: what the planner passes, what the
\* backend returns.
Parseable == JsonDocs \cup MalformedEvents \cup StoredEvents \cup StoredLists

\* The JSON texts, compact and indented, each with the document it reads as.
JsonTexts ==
    {<<json_dumps(v), v>> : v \in Parseable}
        \cup {<<json_dumps_indent(v, 2, 0), v>> : v \in Parseable}

\* json.loads(text): the document the text reads as, or JSONDecodeError.
json_loads(text) ==
    IF \E p \in JsonTexts : p[1] = text
    THEN Return((CHOOSE p \in JsonTexts : p[1] = text)[2])
    ELSE Raise("JSONDecodeError")

\* The body of humanize_response once text has been parsed.
humanize_parsed(data, data_type) ==
    LET each(line(_)) ==
            IF data.t # "list" THEN Raise("TypeError")
            ELSE IF \E i \in 1..Len(data.q) : line(data.q[i]).k = "raise"
            THEN line(data.q[CHOOSE i \in 1..Len(data.q) :
                                 /\ line(data.q[i]).k = "raise"
                                 /\ \A j \in 1..(i - 1) : line(data.q[j]).k # "raise"])
            ELSE Return([i \in 1..Len(data.q) |-> line(data.q[i]).v])
    IN
    IF ~Truthy(data) THEN Return(StrV("No data found."))
    ELSE IF startswith(data_type, "loc")
    THEN LET lines == each(location_line)
         IN IF lines.k = "raise" THEN lines
            ELSE Return(StrV("You have " \o ToString(Len(data.q))
                             \o " saved locations:\n" \o join(lines.v, "\n")))
    ELSE IF startswith(data_type, "event") \/ startswith(data_type, "meet")
    THEN LET lines == each(event_line)
         IN IF lines.k = "raise" THEN lines
            ELSE IF lines.v = <<>> THEN Return(StrV("No events found."))
            ELSE Return(StrV("You have " \o ToString(Len(data.q))
                             \o " events:\n" \o join(lines.v, "\n")))
    ELSE Return(StrV(json_dumps_indent(data, 2, 0)))

humanize_response(data, data_type) ==
    IF data.t = "str"
    THEN IF json_loads(data.s).k = "raise" THEN Return(StrV(data.s))
         ELSE humanize_parsed(json_loads(data.s).v, data_type)
    ELSE humanize_parsed(data, data_type)

(* ------------------------------------------------------------ chat turn --- *)

\* chat_fn once agent.run has produced `result`: text goes to the user as it
\* is, anything else as json.dumps(result, indent=2).
chat_fn(result) ==
    IF result.t = "str" THEN Return(result)
    ELSE Return(StrV(json_dumps_indent(result, 2, 0)))

(* ------------------------------------------------- what the planner passes --- *)


\* What update_event is passed for each optional field: nothing, or a new value.
UpdateTitles == {NoneV, StrV("Standup")}
UpdateStarts == {NoneV, IntV(1700003600)}
UpdateEnds == {NoneV, IntV(1700000000)}

\* The backend behaviours a calendar write or read meets.
CalendarBehaviours == {"serve", "conflict", "error", "down", "garbled"}

Addresses == {StrV("Office"), StrV("Dishoom shoreditch")}

\* The clock readings of datetime.now().
Clock == {1700000000}

\* What the planner may pass get_eta as an endpoint: an address, the dict a
\* geocoding call returned (found or not found), the coordinates of an event's
\* location (with and without its name), or something that is neither text nor
\* a dict.
EtaEndpoints ==
    {StrV("Office"),
     DictV([lat |-> FloatV(515), lng |-> FloatV(-1),
            formatted_address |-> StrV("Office, London")]),
     geocode_failure(StrV("Nowhere"), "Address not found"),
     DictV([latitude |-> FloatV(515), longitude |-> FloatV(-1)]),
     KnownLocations[1],
     NoneV}

\* What the user types in a turn.
Messages == {StrV("What is on my calendar?")}

\* What agent.run may hand chat_fn besides the value the last tool call
\* returned: a sentence the planner wrote itself.
PlannerAnswers == {StrV("All done")}

DataTypes == {"events", "meetings", "locations", "generic"}

\* What the planner may pass humanize_response besides the value the previous
\* call returned: the parsed documents, two of them as text, and text that is
\* not JSON.
HumanizeInputs ==
    JsonDocs \cup {StrV(json_dumps(v)) : v \in {ListV(<<>>), ListV(KnownLocations)}}
             \cup {StrV("All done")}
             \cup MalformedEvents

(* ------------------------------------------------------------- actions --- *)

Init ==
    /\ calendar = <<>>
    /\ call = [tool |-> "none", args |-> <<>>, backend |-> "none"]
    /\ sent = <<>>
    /\ outcome = Return(NoneV)

\* A call ends: the planner sees what it returned or raised, the backend keeps
\* what the call did to it.
Finish(tool, args, b, r) ==
    /\ call' = [tool |-> tool, args |-> args, backend |-> b]
    /\ sent' = r.sent
    /\ outcome' = r.out
    /\ calendar' = r.cal

GetAllEvents ==
    \E b \in CalendarBehaviours :
        Finish("get_all_events", <<>>, b, get_all_events(calendar, b))

GetEventById ==
    \E b \in CalendarBehaviours, event_id \in EventIds :
        Finish("get_event_by_id", <<event_id>>, b,
               get_event_by_id(calendar, b, event_id))

GetAllLocations ==
    \E b \in Behaviours :
        Finish("get_all_locations", <<>>, b, get_all_locations(calendar, b))

CreateEvent ==
    \E b \in CalendarBehaviours, title \in Titles, s \in Epochs, e \in Epochs :
        LET loc == KnownLocations[1].d
        IN Finish("create_event",
                  <<title, s, e, loc.name, loc.latitude, loc.longitude>>, b,
                  create_event(calendar, b, title, s, e, loc.name, loc.latitude,
                               loc.longitude))

DeleteEvent ==
    \E b \in CalendarBehaviours, event_id \in EventIds :
        Finish("delete_event", <<event_id>>, b, delete_event(calendar, b, event_id))

UpdateEvent ==
    \E b \in CalendarBehaviours, event_id \in EventIds,
       title \in UpdateTitles, s \in UpdateStarts, e \in UpdateEnds :
        Finish("update_event", <<event_id, title, s, e>>, b,
               update_event(calendar, b, event_id, title, s, e))

Next ==
    \/ GetAllEvents
    \/ GetEventById
    \/ GetAllLocations
    \/ CreateEvent
    \/ DeleteEvent
    \/ UpdateEvent

Spec == Init /\ [][Next]_vars

\* The result of a tool that has nothing to do with the calendar, with the
\* calendar as it is.
Untouched(r) == Result(r.out, r.sent, calendar)

GetLatLongForAddress ==
    \E b \in GeocoderBehaviours, address \in Addresses :
        Finish("get_lat_long_for_address", <<address>>, b,
               Untouched(get_lat_long_for_address(b, address)))

\* The value the previous call returned, when that call was a geocoding.
Geocoded ==
    IF call.tool = "get_lat_long_for_address" /\ outcome.k = "return"
    THEN {outcome.v} ELSE {}

\* An endpoint is one of the planner's own values or the value the previous
\* geocoding call returned.
GetEta ==
    \E b \in RoutesBehaviours, now \in Clock,
       origin \in EtaEndpoints \cup Geocoded,
       destination \in EtaEndpoints \cup Geocoded :
        Finish("get_eta", <<origin, destination>>, b,
               Untouched(get_eta(b, origin, destination, now)))

NextMaps ==
    \/ GetLatLongForAddress
    \/ GetEta

SpecMaps == Init /\ [][NextMaps]_vars

\* The value the previous call returned.
Returned == IF outcome.k = "return" THEN {outcome.v} ELSE {}

HumanizeResponse ==
    \E data \in HumanizeInputs \cup Returned, data_type \in DataTypes :
        Finish("humanize_response", <<data, StrV(data_type)>>, "none",
               Untouched(Answer(humanize_response(data, data_type), <<>>)))

NextHumanize ==
    \/ CreateEvent
    \/ GetAllEvents
    \/ HumanizeResponse

SpecHumanize == Init /\ [][NextHumanize]_vars

\* One chat turn ends: agent.run returns the planner's final answer, which is
\* the value of its last tool call or its own text, and chat_fn hands the user
\* the reply.
ChatFn ==
    \E message \in Messages, result \in PlannerAnswers \cup Returned :
        Finish("chat_fn", <<message, result>>, "none",
               Untouched(Answer(chat_fn(result), <<>>)))

NextChat ==
    \/ CreateEvent
    \/ GetAllEvents
    \/ HumanizeResponse
    \/ ChatFn

SpecChat == Init /\ [][NextChat]_vars

(* -------------------------------------------------------------- claims --- *)

\* The last call was update_event with no field supplied.
EmptyUpdate(c) ==
    /\ c.tool = "update_event"
    /\ c.args[2] = NoneV /\ c.args[3] = NoneV /\ c.args[4] = NoneV

\* C1: every update_event call that supplies none of title, startDatetime and
\* endDatetime returns the InvalidRequest message, sends no request, and leaves
\* the backend's calendar as it was.
C1_EmptyUpdateRejectedLocally ==
    [][EmptyUpdate(call') =>
          /\ outcome' = Return(StrV(NothingToUpdate))
          /\ sent' = <<>>
          /\ calendar' = calendar]_vars

\* An empty update was made against a calendar that holds an event.
C1_Witness ==
    /\ EmptyUpdate(call)
    /\ outcome = Return(StrV(NothingToUpdate))
    /\ calendar # <<>>

Answered409(x) == x.resp.net = "ok" /\ x.resp.status = 409

\* C2: when the backend answers a create_event or update_event request with
\* 409, the call returns the 'already booked' message and that request is the
\* only one the call sent.
C2_ConflictReportedOnce ==
    (/\ call.tool \in {"create_event", "update_event"}
     /\ \E i \in 1..Len(sent) : Answered409(sent[i]))
        => /\ outcome = Return(StrV(SlotBooked))
           /\ Len(sent) = 1

\* An update met a 409.
C2_Witness ==
    /\ call.tool = "update_event"
    /\ Len(sent) = 1 /\ Answered409(sent[1])
    /\ outcome = Return(StrV(SlotBooked))

\* C3: every call of an adapter tool ends by returning a value; no exception
\* escapes it, whatever the planner passes and whatever the backend does.
C3_NoFaultEscapes ==
    call.tool \in {"get_all_events", "get_event_by_id", "create_event",
                   "update_event", "delete_event", "get_eta", "get_all_locations",
                   "get_lat_long_for_address"}
        => outcome.k = "return"

\* A coordinate pair as the data model has it: {latitude, longitude}.
IsCoordinatePair(v) ==
    /\ v.t = "dict"
    /\ DOMAIN v.d = {"latitude", "longitude"}
    /\ v.d.latitude.t = "float" /\ v.d.longitude.t = "float"

IsEndpoint(v) == v.t = "str" \/ IsCoordinatePair(v)

\* C4: get_eta, given an address or a {latitude, longitude} pair for each
\* endpoint, and a backend that returns a route, returns that route's duration
\* and distance.
C4_EitherRepresentationRoutes ==
    (/\ call.tool = "get_eta"
     /\ call.backend = "serve"
     /\ IsEndpoint(call.args[1]) /\ IsEndpoint(call.args[2]))
        => outcome = Return(StrV("The current ETA is 900s (12.3 km)."))

\* The structured not-found outcome of a geocoding call.
IsNotFound(v) ==
    /\ v.t = "dict"
    /\ "error" \in DOMAIN v.d /\ Truthy(v.d.error)
    /\ dict_get(v, "lat", NoneV) = NoneV /\ dict_get(v, "lng", NoneV) = NoneV

\* C5: a geocoding call that gets zero results returns the not-found outcome,
\* and a get_eta call given a not-found outcome as an endpoint returns an error
\* text and sends no routing request.
C5_NotFoundIsStructured ==
    /\ (call.tool = "get_lat_long_for_address" /\ call.backend = "zero")
           => outcome.k = "return" /\ IsNotFound(outcome.v)
    /\ (call.tool = "get_eta"
        /\ (IsNotFound(call.args[1]) \/ IsNotFound(call.args[2])))
           => /\ sent = <<>>
              /\ outcome.k = "return"
              /\ outcome.v.t = "str"

IsEventsKind(data_type) ==
    startswith(data_type.s, "event") \/ startswith(data_type.s, "meet")

\* C6: humanize_response of an empty list under an events kind is the message
\* "No events found."
C6_EmptyEventsMessage ==
    (/\ call.tool = "humanize_response"
     /\ call.args[1] = ListV(<<>>)
     /\ IsEventsKind(call.args[2]))
        => outcome = Return(StrV("No events found."))

\* An event whose location carries both coordinates.
HasCoordinates(e) ==
    /\ e.t = "dict"
    /\ "location" \in DOMAIN e.d
    /\ e.d.location.t = "dict"
    /\ {"latitude", "longitude"} \subseteq DOMAIN e.d.location.d

\* The same events with the coordinates taken out of their locations.
without_coordinates(data) ==
    ListV([i \in 1..Len(data.q) |->
              DictV([key \in DOMAIN data.q[i].d |->
                        IF key = "location"
                        THEN DictV([name |-> data.q[i].d.location.d.name])
                        ELSE data.q[i].d[key]])])

\* The texts of the coordinates the events carry.
coordinate_texts(data) ==
    UNION {{py_str(data.q[i].d.location.d.latitude),
            py_str(data.q[i].d.location.d.longitude)} : i \in 1..Len(data.q)}

\* C7: for a non-empty list of events that carry coordinates, the events view
\* is the text the same events give without their coordinates, and none of the
\* pieces its lines are put together from is a coordinate.
C7_EventsViewHidesCoordinates ==
    (/\ call.tool = "humanize_response"
     /\ IsEventsKind(call.args[2])
     /\ call.args[1].t = "list" /\ call.args[1].q # <<>>
     /\ \A i \in 1..Len(call.args[1].q) :
            HasCoordinates(call.args[1].q[i]) /\ event_line(call.args[1].q[i]).k = "return")
        => /\ outcome.k = "return"
           /\ outcome = humanize_response(without_coordinates(call.args[1]),
                                          call.args[2].s)
           /\ \A i \in 1..Len(call.args[1].q) :
                  \A j \in 1..Len(event_line_parts(call.args[1].q[i])) :
                      event_line_parts(call.args[1].q[i])[j]
                          \notin coordinate_texts(call.args[1])

\* The events fetched from the backend, one event with coordinates, were
\* humanized.
C7_Witness ==
    /\ call.tool = "humanize_response"
    /\ call.args[2] = StrV("meetings")
    /\ call.args[1].t = "list" /\ Len(call.args[1].q) = 1
    /\ HasCoordinates(call.args[1].q[1])
    /\ call.args[1] = ListV(calendar)
    /\ outcome.k = "return"

\* C8 is about the bounded planning loop of one chat turn.  That loop is
\* CodeAgent.run of the smolagents library; main.py constructs the agent
\* without a step cap and calls run, so no definition here models it.

\* C9: get_all_locations always returns a sequence: the empty list when the
\* read fails (transport failure, HTTP error status, undecodable body), never
\* an error value or a raised fault, and the backend's list when the read
\* succeeds.
C9_LocationsDegradeToEmpty ==
    call.tool = "get_all_locations" =>
        /\ Len(sent) = 1
        /\ outcome.k = "return"
        /\ outcome.v.t = "list"
        /\ RequestException(sent[1].resp) # "" => outcome = Return(ListV(<<>>))
        /\ (RequestException(sent[1].resp) = "" /\ sent[1].resp.body.t = "list")
               => outcome = Return(sent[1].resp.body)

StartsBeforeEnd(ev) == ev.d.startDatetime.n < ev.d.endDatetime.n

\* C10: every event sent to the backend by create_event, and every event the
\* backend stores, has startDatetime < endDatetime.
C10_NoEmptyRangeReachesBackend ==
    /\ \A i \in 1..Len(calendar) : StartsBeforeEnd(calendar[i])
    /\ (call.tool = "create_event" /\ sent # <<>>) => StartsBeforeEnd(sent[1].json)

\* C11: humanize_response never raises: every call returns text, and text that
\* does not parse as JSON is returned unchanged.
C11_HumanizeNeverRaises ==
    call.tool = "humanize_response" =>
        /\ outcome.k = "return"
        /\ outcome.v.t = "str"
        /\ (call.args[1].t = "str" /\ json_loads(call.args[1].s).k = "raise")
               => outcome = Return(call.args[1])

\* The structured data the tools return: the stored events, one by one as
\* get_event_by_id returns them and as the list get_all_events returns, which
\* is the empty list when nothing is stored.
StructuredToolData ==
    {calendar[i] : i \in 1..Len(calendar)} \cup {ListV(calendar)}

\* The serialisations json.dumps gives a value, compact and indented.
RawTexts(v) == {json_dumps(v), json_dumps_indent(v, 2, 0)}

\* C12: the text chat_fn hands back to the user is never a verbatim
\* serialisation of structured tool data (raw events with epoch timestamps and
\* coordinates), whatever the planner run produced.
C12_NoRawDataToUser ==
    call.tool = "chat_fn" =>
        /\ outcome.k = "return" /\ outcome.v.t = "str"
        /\ \A v \in StructuredToolData : outcome.v.s \notin RawTexts(v)

\* The fields update_event can change, and what a call passed for each.
UpdatableFields == {"title", "startDatetime", "endDatetime"}
UpdateArg(c, field) ==
    CASE field = "title" -> c.args[2]
      [] field = "startDatetime" -> c.args[3]
      [] field = "endDatetime" -> c.args[4]
Supplied(c) == {field \in UpdatableFields : UpdateArg(c, field) # NoneV}

\* The backend applied the update of call c to the event at position i.
Updated(c, x, i, cal) ==
    /\ x.resp.net = "ok" /\ x.resp.status = 200
    /\ c.backend = "serve"
    /\ cal[i].d.id = c.args[1]

\* C13: the body update_event sends holds exactly the fields among title,
\* startDatetime and endDatetime that the caller supplied, with the values
\* supplied, and nothing else; after a successful update the event's supplied
\* fields have the new values, every other field of it keeps its previous
\* value, and every other event is as it was.
C13_UpdateIsPartial ==
    [][(call'.tool = "update_event" /\ sent' # <<>>) =>
          /\ Len(sent') = 1
          /\ sent'[1].json.t = "dict"
          /\ DOMAIN sent'[1].json.d = Supplied(call')
          /\ \A field \in Supplied(call') :
                 sent'[1].json.d[field] = UpdateArg(call', field)
          /\ Len(calendar') = Len(calendar)
          /\ \A i \in 1..Len(calendar) :
                 IF Updated(call', sent'[1], i, calendar)
                 THEN /\ DOMAIN calendar'[i].d = DOMAIN calendar[i].d
                      /\ \A field \in DOMAIN calendar[i].d :
                             calendar'[i].d[field] =
                                 IF field \in Supplied(call')
                                 THEN UpdateArg(call', field)
                                 ELSE calendar[i].d[field]
                 ELSE calendar'[i] = calendar[i]]_vars

\* An update that supplied only a new title succeeded: the body was the title
\* alone and the stored event has the new title.
C13_Witness ==
    /\ call.tool = "update_event"
    /\ Supplied(call) = {"title"}
    /\ Len(sent) = 1
    /\ sent[1].json = DictV([title |-> call.args[2]])
    /\ \E i \in 1..Len(calendar) :
           /\ Updated(call, sent[1], i, calendar)
           /\ calendar[i].d.title = call.args[2]
           /\ outcome = Return(calendar[i])

====
